---- MODULE Spec2Model ----
(***************************************************************************)
(* A model of the erratics clustering scripts:                             *)
(*   variant "A"  src/arcgis/clustering-test-2.py  (HDBSCAN, computed      *)
(*                cluster_color_map)                                       *)
(*   variant "B"  src/arcgis/clustering-test.py    (UMAP + DBSCAN, static  *)
(*                colors dict)                                             *)
(* Strings are sequences of one-character strings; a cleaned description   *)
(* handed to the TF-IDF stage is a sequence of tokens.                     *)
(***************************************************************************)
EXTENDS Integers, Sequences, FiniteSets, Bags, TLC

VARIABLES
    variant,            \* which script runs: "A" or "B"
    pc,                 \* position of the run
    clusters,           \* dataframe['cluster'].unique() of the first map call
    cluster_color_map,  \* colour mapping of the first map call
    clusters2,          \* the same for a second map call
    cluster_color_map2,
    text,               \* argument of preprocess_text
    cleaned,            \* preprocess_text(text)
    cleaned2,           \* preprocess_text(cleaned)
    argsort_ties,       \* how the numpy build orders equal scores in argsort
    texts,              \* argument texts of get_top_tfidf_terms
    n,                  \* argument n of get_top_tfidf_terms
    top_terms,          \* what get_top_tfidf_terms returned
    df,                 \* the dataframe: cluster and cleaned_description
    todo,               \* cluster ids the analysis loop has still to visit
    cluster_terms,      \* the module-level dict of the analysis loop
    embeddings,         \* the points handed to the clusterer
    min_samples,        \* parameter min_samples of the clusterer
    min_cluster_size,   \* parameter min_cluster_size of HDBSCAN
    cluster_labels,     \* what fit_predict returned
    dataframe,          \* the dataframe of a run, one row per CSV record
    base_map,           \* the folium map generate_cluster_map builds
    encode_calls,       \* calls of model.encode so far
    saved_files,        \* the files erratics_map.save has written
    stdout,             \* the lines printed so far
    erratics,           \* erratics-layers-almost.py: the erratics read
    results,            \* the records the analysis loop of main() built
    report_rest         \* the records the report loop has still to print

vars == <<variant, pc, clusters, cluster_color_map, clusters2,
          cluster_color_map2, text, cleaned, cleaned2,
          argsort_ties, texts, n, top_terms, df, todo, cluster_terms,
          embeddings, min_samples, min_cluster_size, cluster_labels,
          dataframe, base_map, encode_calls, saved_files, stdout,
          erratics, results, report_rest>>

colorVars == <<clusters, cluster_color_map, clusters2, cluster_color_map2>>
normVars == <<text, cleaned, cleaned2>>
tfidfVars == <<argsort_ties, texts, n, top_terms>>
labelVars == <<df, todo, cluster_terms>>
clusterVars == <<embeddings, min_samples, min_cluster_size, cluster_labels>>
mapVars == <<dataframe, base_map>>
runVars == <<encode_calls, saved_files, stdout>>
reportVars == <<erratics, results, report_rest>>

Variants == {"A", "B"}

(***************************************************************************)
(* Generic helpers                                                         *)
(***************************************************************************)
Min(S) == CHOOSE m \in S : \A x \in S : m <= x

RECURSIVE SortedSeq(_)
\* sorted(...) of a set of integers
SortedSeq(S) ==
    IF S = {} THEN <<>>
    ELSE LET m == Min(S) IN <<m>> \o SortedSeq(S \ {m})

IndexOf(s, x) == CHOOSE i \in 1..Len(s) : s[i] = x

EmptyMap == [c \in {} |-> "gray"]

\* the variables a specification does not use stay at these values
IdleColors ==
    /\ clusters = {} /\ cluster_color_map = EmptyMap
    /\ clusters2 = {} /\ cluster_color_map2 = EmptyMap

IdleNorm == text = <<>> /\ cleaned = <<>> /\ cleaned2 = <<>>

IdleTfidf == texts = <<>> /\ n = 0 /\ top_terms = <<>>

IdleLabel == df = <<>> /\ todo = <<>> /\ cluster_terms = EmptyMap

IdleCluster ==
    /\ embeddings = <<>> /\ min_samples = 0 /\ min_cluster_size = 0
    /\ cluster_labels = <<>>

NoMap == [location |-> <<>>, zoom_start |-> 0, markers |-> <<>>]

IdleMap == dataframe = <<>> /\ base_map = NoMap

IdleRun == encode_calls = 0 /\ saved_files = {} /\ stdout = <<>>

IdleReport == erratics = <<>> /\ results = <<>> /\ report_rest = <<>>

\* dict.get(key, default)
Get(map, key, default) == IF key \in DOMAIN map THEN map[key] ELSE default

RECURSIVE JoinComma(_)
\* ', '.join(terms)
JoinComma(terms) ==
    IF terms = <<>> THEN <<>>
    ELSE IF Len(terms) = 1 THEN terms
    ELSE <<terms[1], ", ">> \o JoinComma(Tail(terms))

(***************************************************************************)
(* Colours of the clusters (generate_cluster_map)                          *)
(***************************************************************************)
MaxClusters == 12

\* the label sets a clusterer produces: clusters numbered 0..k-1, and -1
\* when some point is an outlier
ClusterLabelSets ==
    {noise \cup (0..(k - 1)) : noise \in {{}, {-1}}, k \in 0..MaxClusters} \ {{}}

color_palette ==
    <<"blue", "green", "red", "orange", "purple",
      "darkred", "lightblue", "cadetblue", "pink", "black">>

\* the static dict of variant B
colors ==
    (-1 :> "gray") @@ (0 :> "blue") @@ (1 :> "green") @@ (2 :> "red") @@
    (3 :> "orange") @@ (4 :> "purple") @@ (5 :> "darkred") @@
    (6 :> "lightblue")

\* a slip: the outlier is given a palette colour like any other id
ColorOfEntryNoOutlierCase(i, c_id) ==
    color_palette[(i % Len(color_palette)) + 1]

\* body of the enumerate loop of variant A: i is the 0-based position of
\* c_id in sorted(unique), the outlier id included
ColorOfEntry(i, c_id) ==
    IF c_id = -1 THEN "gray"
    ELSE color_palette[(i % Len(color_palette)) + 1]

\* variant A: unique_clusters = sorted(dataframe['cluster'].unique()), then
\* one dict entry per id
AssignColors(ids) ==
    LET unique_clusters == SortedSeq(ids)
    IN  [c_id \in ids |->
            ColorOfEntry(IndexOf(unique_clusters, c_id) - 1, c_id)]

\* the mapping a map call works with
ColorMapOf(v, ids) == IF v = "A" THEN AssignColors(ids) ELSE colors

\* colour of a marker: cluster_color_map.get(c_id, 'gray')
MarkerColor(map, c_id) == Get(map, c_id, "gray")

InitColors ==
    /\ variant \in Variants
    /\ pc = "colors_in"
    /\ clusters \in ClusterLabelSets
    /\ cluster_color_map = EmptyMap
    /\ clusters2 = {}
    /\ cluster_color_map2 = EmptyMap
    /\ IdleNorm
    /\ argsort_ties = "stable" /\ IdleTfidf
    /\ IdleLabel
    /\ IdleCluster /\ IdleMap /\ IdleRun /\ IdleReport

\* first call of generate_cluster_map: the colour mapping
ColorClusters ==
    /\ pc = "colors_in"
    /\ cluster_color_map' = ColorMapOf(variant, clusters)
    /\ pc' = "colors_one"
    /\ UNCHANGED <<variant, reportVars, clusters, clusters2, cluster_color_map2, normVars,
                   tfidfVars, labelVars,
                   clusterVars, mapVars, runVars>>

\* a second call on a dataframe with the same non-noise cluster ids, with
\* or without outliers
ColorClustersAgain ==
    /\ pc = "colors_one"
    /\ \E ids \in {clusters, clusters \cup {-1}, clusters \ {-1}} :
          /\ ids # {}
          /\ clusters2' = ids
          /\ cluster_color_map2' = ColorMapOf(variant, ids)
    /\ pc' = "colors_two"
    /\ UNCHANGED <<variant, reportVars, clusters, cluster_color_map, normVars, tfidfVars,
                   labelVars,
                   clusterVars, mapVars, runVars>>

NextColors == ColorClusters \/ ColorClustersAgain

SpecColors == InitColors /\ [][NextColors]_vars

\* rank of a non-noise id among the non-noise ids, counted from 0
NonNoiseRank(ids, c) == Cardinality({d \in ids : d # -1 /\ d < c})

PaletteColors == {color_palette[i] : i \in 1..Len(color_palette)}

\* C1: whenever the cluster ids contain -1, the marker colour of -1 is
\* "gray" and is not a colour of the palette, in both calls.
C1_NoiseIsGray ==
    /\ (pc \in {"colors_one", "colors_two"} /\ -1 \in clusters) =>
          /\ MarkerColor(cluster_color_map, -1) = "gray"
          /\ MarkerColor(cluster_color_map, -1) \notin PaletteColors
    /\ (pc = "colors_two" /\ -1 \in clusters2) =>
          /\ MarkerColor(cluster_color_map2, -1) = "gray"
          /\ MarkerColor(cluster_color_map2, -1) \notin PaletteColors

\* -1 is coloured while more ids than the palette holds are present, so the
\* palette index of the other ids wraps around
C1_Witness ==
    /\ pc = "colors_two"
    /\ variant = "A"
    /\ -1 \in clusters
    /\ -1 \in clusters2
    /\ Cardinality(clusters) > Len(color_palette)
    /\ MarkerColor(cluster_color_map, -1) = "gray"

\* C2: the k-th smallest non-noise id (k from 0, -1 not counted) gets
\* palette[k mod len(palette)].
C2_RankedPalette ==
    pc \in {"colors_one", "colors_two"} =>
        \A c \in clusters \ {-1} :
            MarkerColor(cluster_color_map, c) =
                color_palette[(NonNoiseRank(clusters, c) % Len(color_palette)) + 1]

\* C3: two calls whose inputs hold the same non-noise ids give every
\* non-noise id the same colour.
C3_SameNonNoiseSameColor ==
    (pc = "colors_two" /\ clusters \ {-1} = clusters2 \ {-1}) =>
        \A c \in clusters \ {-1} :
            MarkerColor(cluster_color_map, c) = MarkerColor(cluster_color_map2, c)

(***************************************************************************)
(* preprocess_text                                                         *)
(***************************************************************************)
MaxTextLen == 4

\* the characters of the model: three lowercase letters, an uppercase
\* letter, the underscore (a word character of \w), a punctuation mark and
\* a blank
Chars == {"a", "s", "p", "A", "_", ".", " "}

\* a missing description (None, or the NaN of an empty CSV cell)
NoneText == <<"None">>

Strings == UNION {[1..k -> Chars] : k \in 0..MaxTextLen}

\* str.lower() on one character
LowerChar(ch) == IF ch = "A" THEN "a" ELSE ch

\* \w of the regular expression
IsWordChar(ch) == ch \in {"a", "s", "p", "A", "_"}

\* \s of the regular expression
IsSpace(ch) == ch = " "

\* text.lower()
Lower(s) == [i \in 1..Len(s) |-> LowerChar(s[i])]

\* a slip: the substitution removes nothing
StripPunctKeepsAll(s) == s

\* re.sub(r'[^\w\s]', '', text)
StripPunct(s) == SelectSeq(s, LAMBDA ch : IsWordChar(ch) \/ IsSpace(ch))

RECURSIVE SplitFrom(_, _, _)
\* text.split(): the maximal runs of non-blank characters; cur is the run
\* being read from position i on
SplitFrom(s, i, cur) ==
    IF i > Len(s)
    THEN IF cur = <<>> THEN <<>> ELSE <<cur>>
    ELSE IF IsSpace(s[i])
         THEN (IF cur = <<>> THEN <<>> ELSE <<cur>>) \o SplitFrom(s, i + 1, <<>>)
         ELSE SplitFrom(s, i + 1, Append(cur, s[i]))

Split(s) == SplitFrom(s, 1, <<>>)

\* stopwords.words('english'), the entries spelled with the model's letters
stop_words == {<<"a">>, <<"s">>, <<"a", "s">>}

\* a slip: no token is taken for a stopword
IsStopWordNever(word) == FALSE

\* word in stop_words
IsStopWord(word) == word \in stop_words

\* the noun lemmas of WordNet spelled with the model's letters
WordNetNouns ==
    {<<"a">>, <<"s">>, <<"p">>,
     <<"a", "s">>, <<"p", "a">>, <<"p", "s">>, <<"a", "a">>,
     <<"a", "s", "s">>, <<"p", "a", "s">>, <<"s", "p", "a">>,
     <<"s", "a", "p">>, <<"a", "s", "p">>, <<"p", "a", "p">>,
     <<"p", "a", "s", "s">>, <<"p", "a", "p", "a">>, <<"s", "a", "s", "s">>}

\* the detachment rules of WordNet's morphy for nouns that can match a word
\* of the model's letters: only ("s", "")
ApplyRules(forms) ==
    {SubSeq(f, 1, Len(f) - 1) : f \in {g \in forms : Len(g) > 0 /\ g[Len(g)] = "s"}}

FilterForms(forms) == forms \cap WordNetNouns

RECURSIVE MorphyLoop(_)
\* step 3 of morphy: keep applying the rules until a form is a lemma
MorphyLoop(forms) ==
    IF forms = {} THEN {}
    ELSE LET next == ApplyRules(forms)
             found == FilterForms(next)
         IN  IF found # {} THEN found ELSE MorphyLoop(next)

\* wn._morphy(word, 'n')
Morphy(word) ==
    LET forms == ApplyRules({word})
        found == FilterForms({word} \cup forms)
    IN  IF found # {} THEN found ELSE MorphyLoop(forms)

\* lemmatizer.lemmatize(word): the shortest lemma morphy finds, else the word
Lemmatize(word) ==
    LET lemmas == Morphy(word)
    IN  IF lemmas = {} THEN word
        ELSE CHOOSE l \in lemmas : \A m \in lemmas : Len(l) <= Len(m)

RECURSIVE Join(_)
\* ' '.join(words)
Join(words) ==
    IF words = <<>> THEN <<>>
    ELSE IF Len(words) = 1 THEN words[1]
    ELSE words[1] \o <<" ">> \o Join(Tail(words))

\* a slip: the words are lemmatized first and the stopword test looks at the
\* lemmas
LemmatizeThenDrop(words) ==
    SelectSeq([i \in 1..Len(words) |-> Lemmatize(words[i])],
              LAMBDA w : ~IsStopWord(w))

\* the list comprehension: lemmatize the words that are not stopwords
LemmatizeKept(words) ==
    LET kept == SelectSeq(words, LAMBDA w : ~IsStopWord(w))
    IN  [i \in 1..Len(kept) |-> Lemmatize(kept[i])]

preprocess_text(t) ==
    IF t = NoneText THEN <<>>
    ELSE Join(LemmatizeKept(Split(StripPunct(Lower(t)))))

InitNorm ==
    /\ variant = "A"
    /\ pc = "norm_in"
    /\ text \in Strings \cup {NoneText}
    /\ cleaned = <<>>
    /\ cleaned2 = <<>>
    /\ IdleColors
    /\ argsort_ties = "stable" /\ IdleTfidf
    /\ IdleLabel
    /\ IdleCluster /\ IdleMap /\ IdleRun /\ IdleReport

\* df['description'].apply(preprocess_text) on one description
Preprocess ==
    /\ pc = "norm_in"
    /\ cleaned' = preprocess_text(text)
    /\ pc' = "norm_once"
    /\ UNCHANGED <<variant, reportVars, text, cleaned2, colorVars, tfidfVars, labelVars,
                   clusterVars, mapVars, runVars>>

\* preprocess_text applied to its own result
PreprocessAgain ==
    /\ pc = "norm_once"
    /\ cleaned2' = preprocess_text(cleaned)
    /\ pc' = "norm_twice"
    /\ UNCHANGED <<variant, reportVars, text, cleaned, colorVars, tfidfVars, labelVars,
                   clusterVars, mapVars, runVars>>

NextNorm == Preprocess \/ PreprocessAgain

SpecNorm == InitNorm /\ [][NextNorm]_vars

\* a blank-separated word of the raw text, with its punctuation removed and
\* in lowercase
BareWord(w) == Lower(SelectSeq(w, IsWordChar))

\* the text holds nothing but punctuation, blanks and stopwords
ZeroTokens(t) ==
    \A i \in 1..Len(Split(t)) :
        LET b == BareWord(Split(t)[i]) IN b = <<>> \/ b \in stop_words

\* C9: a missing description, the empty string and every string that holds
\* only punctuation, blanks and stopwords are normalized to the empty
\* string, and every string has a result.
C9_NormalizeTotal ==
    /\ pc = "norm_in" => ENABLED Preprocess
    /\ pc \in {"norm_once", "norm_twice"} =>
          ((text = NoneText \/ ZeroTokens(text)) => cleaned = <<>>)

\* a non-empty text of punctuation and a stopword was normalized to ""
C9_Witness ==
    /\ pc = "norm_once"
    /\ text # NoneText
    /\ \E i \in 1..Len(text) : text[i] = "."
    /\ \E i \in 1..Len(text) : text[i] \in {"a", "A", "s"}
    /\ ZeroTokens(text)
    /\ cleaned = <<>>

\* C10 (as stated): preprocess_text(preprocess_text(x)) = preprocess_text(x)
\* for every string x.
C10_Idempotent ==
    pc = "norm_twice" => cleaned2 = cleaned

\* every token of an already normalized text is its own lemma and no stopword
StableTokens(t) ==
    \A i \in 1..Len(Split(t)) :
        LET w == Split(t)[i] IN ~(w \in stop_words) /\ Lemmatize(w) = w

\* C10 (amended): a second normalization leaves the result unchanged exactly
\* when every token of the result is no stopword and is its own lemma.
C10_IdempotentOnStableTokens ==
    pc = "norm_twice" => (cleaned2 = cleaned <=> StableTokens(cleaned))

\* a text that normalization changed and whose result is a fixed point
C10_Witness ==
    /\ pc = "norm_twice"
    /\ text # NoneText
    /\ cleaned # <<>>
    /\ cleaned # text
    /\ StableTokens(cleaned)
    /\ cleaned2 = cleaned

\* the lowercase letters and digits among the model's characters
LowerAlnum == {"a", "s", "p"}

\* tokens of lowercase letters and digits, one blank between two of them,
\* no blank at either end
SingleSpacedAlnum(t) ==
    /\ \A i \in 1..Len(t) : t[i] \in LowerAlnum \cup {" "}
    /\ t # <<>> => (t[1] # " " /\ t[Len(t)] # " ")
    /\ \A i \in 1..(Len(t) - 1) : ~(t[i] = " " /\ t[i + 1] = " ")

\* C11: the result of preprocess_text consists only of tokens of lowercase
\* alphanumeric characters (no underscore, punctuation or uppercase letter),
\* separated by exactly one blank with no blank at either end, and no token
\* of the result is a stopword.
C11_OutputInvariant ==
    pc \in {"norm_once", "norm_twice"} =>
        /\ SingleSpacedAlnum(cleaned)
        /\ \A i \in 1..Len(Split(cleaned)) : ~(Split(cleaned)[i] \in stop_words)

(***************************************************************************)
(* get_top_tfidf_terms                                                     *)
(* Scores are fixed-point numbers: an idf in thousandths, a component of   *)
(* a normalized row in ten-thousandths.                                    *)
(***************************************************************************)
MaxCorpusSize == 5

MaxTopN == 2

DefaultTopN == 10

\* the tokens of cleaned descriptions, in ascending lexicographic order
TokenOrder == <<"also", "ice", "rock">>

Tokens == {TokenOrder[i] : i \in 1..Len(TokenOrder)}

\* stop_words='english': scikit-learn's list, the entries among Tokens
\* ("also" is no stopword of NLTK's list, so preprocess_text keeps it)
ENGLISH_STOP_WORDS == {"also"}

RECURSIVE DocsFrom(_, _, _)
\* the documents written one after the other, each followed by "|"
DocsFrom(s, i, cur) ==
    IF i > Len(s) THEN <<>>
    ELSE IF s[i] = "|" THEN <<cur>> \o DocsFrom(s, i + 1, <<>>)
    ELSE DocsFrom(s, i + 1, Append(cur, s[i]))

\* the lists of cleaned descriptions handed to get_top_tfidf_terms: at
\* least one document, documents and tokens together at most MaxCorpusSize
Corpora ==
    {DocsFrom(s, 1, <<>>) :
        s \in {x \in UNION {[1..k -> Tokens \cup {"|"}] : k \in 1..MaxCorpusSize} :
                  x[Len(x)] = "|"}}

TopNs == (1..MaxTopN) \cup {DefaultTopN}

\* equal scores leave argsort in index order (the insertion sort numpy's
\* introsort uses on short arrays) or, on another build, in the opposite order
ArgsortTies == {"stable", "reversed"}

RECURSIVE SumTo(_, _)
\* f[1] + ... + f[k]
SumTo(f, k) == IF k = 0 THEN 0 ELSE f[k] + SumTo(f, k - 1)

RECURSIVE IsqrtIter(_, _)
IsqrtIter(x, r) ==
    LET r2 == (r + x \div r) \div 2
    IN  IF r2 >= r THEN r ELSE IsqrtIter(x, r2)

\* the integer square root
Isqrt(x) == IF x = 0 THEN 0 ELSE IsqrtIter(x, x)

\* the analyzer of the vectorizer: the tokens that are no stopword
Analyze(doc) == SelectSeq(doc, LAMBDA t : t \notin ENGLISH_STOP_WORDS)

\* tfidf.vocabulary_
Vocabulary(txts) ==
    {t \in Tokens : \E d \in 1..Len(txts) :
        \E i \in 1..Len(Analyze(txts[d])) : Analyze(txts[d])[i] = t}

\* fit_transform raises ValueError("empty vocabulary; ...")
EmptyVocabulary(txts) == Vocabulary(txts) = {}

\* tfidf.get_feature_names_out(): the vocabulary in ascending order
FeatureNames(txts) == SelectSeq(TokenOrder, LAMBDA t : t \in Vocabulary(txts))

\* term frequency of t in a document
Count(doc, t) == Cardinality({i \in 1..Len(Analyze(doc)) : Analyze(doc)[i] = t})

\* number of documents that hold t
DocFreq(txts, t) == Cardinality({d \in 1..Len(txts) : Count(txts[d], t) > 0})

\* 1000 * ln(k), k = 1..8
LnMilli == <<0, 693, 1099, 1386, 1609, 1792, 1946, 2079>>

\* smooth idf: ln((1 + n) / (1 + df)) + 1
Idf(txts, t) == LnMilli[1 + Len(txts)] - LnMilli[1 + DocFreq(txts, t)] + 1000

Weight(txts, d, t) == Count(txts[d], t) * Idf(txts, t)

\* the l2 norm of a row
RowNorm(txts, d) ==
    LET names == FeatureNames(txts)
        sq == [i \in 1..Len(names) |->
                  Weight(txts, d, names[i]) * Weight(txts, d, names[i])]
    IN  Isqrt(SumTo(sq, Len(names)))

\* an entry of tfidf_matrix
Tfidf(txts, d, t) ==
    IF RowNorm(txts, d) = 0 THEN 0
    ELSE (Weight(txts, d, t) * 10000) \div RowNorm(txts, d)

\* tfidf_matrix.mean(axis=0) at the column of t
MeanScore(txts, t) ==
    LET col == [d \in 1..Len(txts) |-> Tfidf(txts, d, t)]
    IN  SumTo(col, Len(txts)) \div Len(txts)

\* index i comes before index j in scores.argsort()
SortsBefore(scores, ties, i, j) ==
    \/ scores[i] < scores[j]
    \/ scores[i] = scores[j] /\ (IF ties = "stable" THEN i < j ELSE i > j)

RECURSIVE ArgsortOf(_, _, _)
ArgsortOf(scores, ties, S) ==
    IF S = {} THEN <<>>
    ELSE LET m == CHOOSE i \in S : \A j \in S \ {i} : SortsBefore(scores, ties, i, j)
         IN  <<m>> \o ArgsortOf(scores, ties, S \ {m})

\* scores.argsort()
Argsort(scores, ties) == ArgsortOf(scores, ties, DOMAIN scores)

\* a slip: the [::-1] is missing
ReverseMissing(s) == s

\* s[::-1]
Reverse(s) == [i \in 1..Len(s) |-> s[Len(s) + 1 - i]]

\* a slip: the slice is missing
FirstNUncut(s, k) == s

\* s[:k]
FirstN(s, k) == SubSeq(s, 1, IF k < Len(s) THEN k ELSE Len(s))

\* defined when the vocabulary is not empty
get_top_tfidf_terms(txts, k, ties) ==
    LET feature_names == FeatureNames(txts)
        scores == [i \in 1..Len(feature_names) |-> MeanScore(txts, feature_names[i])]
        top_indices == FirstN(Reverse(Argsort(scores, ties)), k)
    IN  [i \in 1..Len(top_indices) |-> feature_names[top_indices[i]]]

InitTfidf ==
    /\ variant = "A"
    /\ pc = "tfidf_in"
    /\ argsort_ties \in ArgsortTies
    /\ texts \in Corpora
    /\ n \in TopNs
    /\ top_terms = <<>>
    /\ IdleColors
    /\ IdleNorm
    /\ IdleLabel
    /\ IdleCluster /\ IdleMap /\ IdleRun /\ IdleReport

\* one call of get_top_tfidf_terms(texts, n)
CallGetTop ==
    /\ pc = "tfidf_in"
    /\ IF EmptyVocabulary(texts)
       THEN /\ pc' = "tfidf_raised"
            /\ UNCHANGED top_terms
       ELSE /\ pc' = "tfidf_returned"
            /\ top_terms' = get_top_tfidf_terms(texts, n, argsort_ties)
    /\ UNCHANGED <<variant, reportVars, argsort_ties, texts, n, colorVars, normVars, labelVars,
                   clusterVars, mapVars, runVars>>

NextTfidf == CallGetTop

SpecTfidf == InitTfidf /\ [][NextTfidf]_vars

\* position of a term in the lexicographic order
TokenRank(t) == IndexOf(TokenOrder, t)

Returned == {top_terms[i] : i \in 1..Len(top_terms)}

DistinctTerms(txts) ==
    {t \in Tokens \ ENGLISH_STOP_WORDS :
        \E d \in 1..Len(txts) : \E i \in 1..Len(txts[d]) : txts[d][i] = t}

\* C5: a call that returns gives exactly min(n, number of distinct terms)
\* terms of the vocabulary, none twice, and a call raises only when there is
\* no term at all, never because the vocabulary is smaller than n.
C5_TopTermsLength ==
    /\ pc = "tfidf_returned" =>
          /\ Len(top_terms) =
                (IF n < Cardinality(DistinctTerms(texts))
                 THEN n ELSE Cardinality(DistinctTerms(texts)))
          /\ Cardinality(Returned) = Len(top_terms)
          /\ Returned \subseteq DistinctTerms(texts)
    /\ pc = "tfidf_raised" => DistinctTerms(texts) = {}

\* fewer terms than n were asked of a vocabulary, and all were returned
C5_Witness ==
    /\ pc = "tfidf_returned"
    /\ Cardinality(DistinctTerms(texts)) = 2
    /\ n = DefaultTopN
    /\ Len(top_terms) = 2

\* the cut took effect: more terms than n
C5_WitnessCut ==
    /\ pc = "tfidf_returned"
    /\ Cardinality(DistinctTerms(texts)) > n
    /\ Len(top_terms) = n

(***************************************************************************)
(* The cluster analysis loop (cluster_terms)                               *)
(***************************************************************************)
MaxRecords == 3

\* cleaned descriptions of the records: no token or one
LabelDocs == {<<>>} \cup {<<t>> : t \in Tokens}

\* cluster ids of the records
LabelIds == {-1, 0, 1}

Rows == [cluster : LabelIds, cleaned_description : LabelDocs]

\* df['cluster'] as a set
ClusterSet(frame) == {frame[i].cluster : i \in 1..Len(frame)}

\* the dataframes after clustering: the ids are a label set of a clusterer
Frames ==
    {f \in UNION {[1..k -> Rows] : k \in 1..MaxRecords} :
        ClusterSet(f) \in ClusterLabelSets}

RECURSIVE UniqueFrom(_, _, _)
\* df['cluster'].unique(): the ids in the order of their first row
UniqueFrom(frame, i, seen) ==
    IF i > Len(frame) THEN <<>>
    ELSE IF frame[i].cluster \in seen THEN UniqueFrom(frame, i + 1, seen)
    ELSE <<frame[i].cluster>> \o
         UniqueFrom(frame, i + 1, seen \cup {frame[i].cluster})

Unique(frame) == UniqueFrom(frame, 1, {})

\* the ids the loop visits, in its order: sorted in variant A, by first row
\* in variant B
LoopOrder(v, frame) ==
    IF v = "A" THEN SortedSeq(ClusterSet(frame)) ELSE Unique(frame)

\* a slip: the texts of the whole dataframe
ClusterTextsWholeFrame(frame, cluster_id) ==
    [i \in 1..Len(frame) |-> frame[i].cleaned_description]

\* df[df['cluster'] == cluster_id]['cleaned_description']
ClusterTexts(frame, cluster_id) ==
    LET members == SelectSeq(frame, LAMBDA r : r.cluster = cluster_id)
    IN  [i \in 1..Len(members) |-> members[i].cleaned_description]

\* print("Cluster Analysis:")
Heading(v) == IF v = "A" THEN "Cluster Analysis:" ELSE "Cluster analysis:"

\* print(f"Cluster {cluster_id} => {', '.join(top_terms)}"): the two values
\* the f-string puts into the line
ClusterLine(cluster_id, terms) ==
    [cluster |-> cluster_id, top_terms |-> JoinComma(terms)]

InitLabel ==
    /\ variant \in Variants
    /\ pc = "label_in"
    /\ argsort_ties \in ArgsortTies
    /\ df \in Frames
    /\ todo = <<>>
    /\ cluster_terms = EmptyMap
    /\ IdleColors
    /\ IdleNorm
    /\ IdleTfidf
    /\ IdleCluster /\ IdleMap /\ IdleRun /\ IdleReport

\* print("Cluster Analysis:"); cluster_terms = {}; the for statement
StartAnalysis ==
    /\ pc = "label_in"
    /\ cluster_terms' = EmptyMap
    /\ todo' = LoopOrder(variant, df)
    /\ stdout' = Append(stdout, [heading |-> Heading(variant)])
    /\ pc' = "labelling"
    /\ UNCHANGED <<variant, reportVars, argsort_ties, df, colorVars, normVars,
                   texts, n, top_terms,
                   clusterVars, mapVars, encode_calls, saved_files>>

\* one iteration of the loop. The test len(cluster_texts) == 0 of variant A
\* looks at the number of member rows, which is at least one for an id of
\* df['cluster'].unique(); the ValueError of an empty vocabulary ends the
\* script
LabelCluster ==
    /\ pc = "labelling"
    /\ todo # <<>>
    /\ LET cluster_id == Head(todo)
           cluster_texts == ClusterTexts(df, cluster_id)
       IN  IF variant = "A" /\ Len(cluster_texts) = 0
           THEN /\ todo' = Tail(todo)
                /\ pc' = IF Tail(todo) = <<>> THEN "labelled" ELSE "labelling"
                /\ UNCHANGED <<cluster_terms, stdout>>
           ELSE IF EmptyVocabulary(cluster_texts)
           THEN /\ pc' = "label_raised"
                /\ UNCHANGED <<todo, cluster_terms, stdout>>
           ELSE /\ cluster_terms' =
                      (cluster_id :>
                          get_top_tfidf_terms(cluster_texts, DefaultTopN, argsort_ties))
                      @@ cluster_terms
                /\ stdout' = Append(stdout,
                      ClusterLine(cluster_id,
                          get_top_tfidf_terms(cluster_texts, DefaultTopN, argsort_ties)))
                /\ todo' = Tail(todo)
                /\ pc' = IF Tail(todo) = <<>> THEN "labelled" ELSE "labelling"
    /\ UNCHANGED <<variant, reportVars, argsort_ties, df, colorVars, normVars,
                   texts, n, top_terms,
                   clusterVars, mapVars, encode_calls, saved_files>>

NextLabel == StartAnalysis \/ LabelCluster

SpecLabel == InitLabel /\ [][NextLabel]_vars

\* every member of the cluster has an empty cleaned description
AllEmptyTexts(frame, c) ==
    \A i \in 1..Len(frame) :
        frame[i].cluster = c => frame[i].cleaned_description = <<>>

\* C6: a cluster all of whose members have an empty cleaned description gets
\* no summary and raises no error: the loop does not end in an error at it.
C6_EmptyClusterSkipped ==
    \A c \in ClusterSet(df) :
        AllEmptyTexts(df, c) =>
            /\ c \notin DOMAIN cluster_terms
            /\ ~(pc = "label_raised" /\ Head(todo) = c)

\* C7: once the analysis loop has ended, the keys of cluster_terms are
\* exactly the cluster ids with a member whose cleaned description is not
\* empty.
C7_KeysAreNonEmptyClusters ==
    pc \in {"labelled", "label_raised"} =>
        DOMAIN cluster_terms = {c \in ClusterSet(df) : ~AllEmptyTexts(df, c)}

RECURSIVE DocKey(_)
\* a number for each document, different for different documents
DocKey(d) ==
    IF d = <<>> THEN 0
    ELSE TokenRank(Head(d)) + (Len(TokenOrder) + 1) * DocKey(Tail(d))

\* the bag of the cleaned descriptions of a cluster's members
MemberBag(frame, c) ==
    LET members == {i \in 1..Len(frame) : frame[i].cluster = c}
    IN  [d \in {frame[i].cleaned_description : i \in members} |->
            Cardinality({i \in members : frame[i].cleaned_description = d})]

RECURSIVE BagInOrder(_)
\* the documents of a bag in the order of their numbers, each as often as
\* the bag holds it
BagInOrder(bag) ==
    IF DOMAIN bag = {} THEN <<>>
    ELSE LET d == CHOOSE x \in DOMAIN bag :
                      \A y \in DOMAIN bag : DocKey(x) <= DocKey(y)
             rest == [y \in DOMAIN bag \ {d} |-> bag[y]]
         IN  [i \in 1..bag[d] |-> d] \o BagInOrder(rest)

\* C8: the top terms of a summarized cluster are those of the bag of its
\* members' cleaned descriptions alone: they equal the terms computed from
\* the bag listed in a fixed order, whatever the order of the rows and the
\* texts of the other clusters.
C8_TermsOfMemberBag ==
    \A c \in DOMAIN cluster_terms :
        cluster_terms[c] =
            get_top_tfidf_terms(BagInOrder(MemberBag(df, c)), DefaultTopN, argsort_ties)

\* a cluster of two terms whose rows are not in the fixed order, beside
\* another cluster with a text of its own
C8_Witness ==
    /\ pc = "labelled"
    /\ variant = "A"
    /\ \E c \in DOMAIN cluster_terms :
          /\ Len(cluster_terms[c]) = 2
          /\ ClusterTexts(df, c) # BagInOrder(MemberBag(df, c))
          /\ \E o \in DOMAIN cluster_terms : o # c

(***************************************************************************)
(* The clusterers: DBSCAN (variant B) and HDBSCAN (variant A).             *)
(* A point is a coordinate on one line of the space that is clustered,     *)
(* its unit an eighth, so that eps = 0.875 is 7; the metric is euclidean.  *)
(* Point indices are 1..Len(X), in the order of the input.                 *)
(***************************************************************************)
MaxPointsDbscan == 7

MaxPointsHdbscan == 6

\* DBSCAN(eps=0.875, ...), in eighths
eps == 7

\* the places of the points handed to DBSCAN: neighbouring places lie within
\* eps of each other, the others do not
PlacesDbscan == {0, 4, 8, 12, 16}

\* the places of the points handed to HDBSCAN
PlacesHdbscan == {0, 4, 8}

RECURSIVE RunsOf(_, _)
\* the sequences of at most budget points in which the points of one place
\* follow each other
RunsOf(places, budget) ==
    {<<>>} \cup
    UNION {{[i \in 1..k |-> p] \o rest : rest \in RunsOf(places \ {p}, budget - k)} :
              p \in places, k \in 1..budget}

\* the inputs of DBSCAN. Coincident points have one neighbourhood, so the
\* clusters depend on the input order only through the order of the places;
\* the inputs list the points of a place together, the places in any order.
PointSeqsDbscan == RunsOf(PlacesDbscan, MaxPointsDbscan) \ {<<>>}

\* the inputs of HDBSCAN: two points or more, in any order
PointSeqsHdbscan == UNION {[1..k -> PlacesHdbscan] : k \in 2..MaxPointsHdbscan}

\* the settings of min_samples the DBSCAN class is run with; the script's
\* own is 2
MinSamplesB == 1..4

\* the euclidean distance of the points i and j
Dist(X, i, j) == IF X[i] >= X[j] THEN X[i] - X[j] ELSE X[j] - X[i]

\* a slip: a point is not counted in its own neighbourhood
NeighborhoodWithoutSelf(X, i) ==
    {j \in 1..Len(X) : j # i /\ Dist(X, i, j) <= eps}

\* neighbors_model.radius_neighbors(X): the points within eps, the point
\* itself included
Neighborhood(X, i) == {j \in 1..Len(X) : Dist(X, i, j) <= eps}

\* a slip: every point is taken for a core point
IsCoreSampleAlways(X, m, i) == TRUE

\* core_samples: n_neighbors >= min_samples
IsCoreSample(X, m, i) == Cardinality(Neighborhood(X, i)) >= m

\* the neighbours of point i that have no label yet, in index order
UnlabelledNeighbors(X, lab, i) ==
    SortedSeq({v \in Neighborhood(X, i) : lab[v] = -1})

RECURSIVE Expand(_, _, _, _, _, _)
\* the inner loop of dbscan_inner: a depth-first walk from point i that
\* labels every point it pops and pushes the neighbours of core points
Expand(X, m, lab, stack, i, label_num) ==
    LET fresh == lab[i] = -1
        lab1 == IF fresh THEN [lab EXCEPT ![i] = label_num] ELSE lab
        stack1 == IF fresh /\ IsCoreSample(X, m, i)
                  THEN stack \o UnlabelledNeighbors(X, lab1, i)
                  ELSE stack
    IN  IF stack1 = <<>> THEN lab1
        ELSE Expand(X, m, lab1, SubSeq(stack1, 1, Len(stack1) - 1),
                    stack1[Len(stack1)], label_num)

RECURSIVE Scan(_, _, _, _, _)
\* the outer loop of dbscan_inner: every unlabelled core point, in input
\* order, starts the next cluster
Scan(X, m, lab, i, label_num) ==
    IF i > Len(X) THEN lab
    ELSE IF lab[i] # -1 \/ ~IsCoreSample(X, m, i)
         THEN Scan(X, m, lab, i + 1, label_num)
         ELSE Scan(X, m, Expand(X, m, lab, <<>>, i, label_num), i + 1,
                   label_num + 1)

\* DBSCAN(eps, min_samples).fit_predict(X)
dbscan(X, m) == Scan(X, m, [i \in 1..Len(X) |-> -1], 1, 0)

\* the settings HDBSCAN is run with; the script's own are 2 and 2
MinSamplesA == {1, 2}

MinClusterSizes == {2, 3}

Max(S) == CHOOSE m \in S : \A x \in S : m >= x

\* np.inf
Infinity == 1000000

\* hdbscan(): min_samples = min(size - 1, min_samples), and 1 instead of 0
ClampedMinSamples(X, m) ==
    LET c == Min({Len(X) - 1, m}) IN IF c = 0 THEN 1 ELSE c

\* tree.query(X, k=min_samples + 1)[0][:, -1]: the distance to the
\* (m + 1)-th nearest point, the point itself being the nearest
CoreDistance(X, m, i) ==
    Min({d \in {Dist(X, i, j) : j \in 1..Len(X)} :
            Cardinality({j \in 1..Len(X) : Dist(X, i, j) <= d}) >= m + 1})

\* the mutual reachability distance of i and j, core the core distances
MutualReachability(X, core, i, j) == Max({core[i], core[j], Dist(X, i, j)})

RECURSIVE Prim(_, _, _, _, _, _)
\* the end of one round of mst_linkage_core_vector: of the nearest points
\* outside the tree the one of least index comes next
PrimNext(X, core, tree, rest, distances, sources) ==
    LET new_distance == Min({distances[j] : j \in rest})
        new_node == Min({j \in rest : distances[j] = new_distance})
    IN  <<[source |-> sources[new_node], node |-> new_node,
           weight |-> new_distance]>>
        \o Prim(X, core, new_node, tree, distances, sources)

\* the loop of mst_linkage_core_vector, Prim's algorithm: current_node
\* enters the tree and the distances of the points outside are updated
Prim(X, core, current_node, in_tree, current_distances, current_sources) ==
    LET tree == in_tree \cup {current_node}
        rest == (1..Len(X)) \ tree
        left_value == [j \in rest |->
                          MutualReachability(X, core, current_node, j)]
    IN  IF rest = {} THEN <<>>
        \* (the sets of one element bind the updated arrays to their values)
        ELSE CHOOSE edges \in
                {PrimNext(X, core, tree, rest, distances, sources) :
                    distances \in
                        {[j \in rest |->
                            IF left_value[j] < current_distances[j]
                            THEN left_value[j] ELSE current_distances[j]]},
                    sources \in
                        {[j \in rest |->
                            IF left_value[j] < current_distances[j]
                            THEN current_node ELSE current_sources[j]]}} :
                TRUE

\* the edges of a minimum spanning tree in the order Prim's algorithm,
\* started at the first point, finds them
mst_linkage_core_vector(X, core) ==
    Prim(X, core, 1, {}, [j \in 1..Len(X) |-> Infinity],
         [j \in 1..Len(X) |-> 1])

\* min_spanning_tree[np.argsort(min_spanning_tree.T[2]), :]
SortByWeight(edges, ties) ==
    LET order == Argsort([i \in 1..Len(edges) |-> edges[i].weight], ties)
    IN  [i \in 1..Len(edges) |-> edges[order[i]]]

\* a point as a tree of the single linkage hierarchy
Leaf(i) == [pts |-> {i}, dist |-> 0, kids |-> <<>>]

RECURSIVE Link(_, _)
\* label(): every edge, in sorted order, joins the trees of its two ends
Link(edges, forest) ==
    IF edges = <<>> THEN forest
    ELSE LET e == Head(edges)
             left == CHOOSE t \in forest : e.source \in t.pts
             right == CHOOSE t \in forest : e.node \in t.pts
             joined == [pts |-> left.pts \cup right.pts, dist |-> e.weight,
                        kids |-> <<left, right>>]
         IN  Link(Tail(edges), (forest \ {left, right}) \cup {joined})

\* the single linkage tree of X
SingleLinkageTree(X, m, ties) ==
    LET core == [i \in 1..Len(X) |-> CoreDistance(X, m, i)]
        edges == SortByWeight(mst_linkage_core_vector(X, core), ties)
        forest == Link(edges, {Leaf(i) : i \in 1..Len(X)})
    IN  CHOOSE t \in forest : TRUE

\* lambda = 1 / distance, in units of 1/8 so that it is an integer for the
\* distances 4 and 8
Lambda(d) == IF d = 0 THEN Infinity ELSE Max(PlacesHdbscan) \div d

RECURSIVE CondenseFrom(_, _, _, _)
\* condense_tree: a breadth-first walk of the hierarchy; queue holds the
\* trees to visit, each with the cluster its points are in. A split into
\* two children of min_cluster_size points or more starts two clusters, a
\* smaller child's points fall out of the cluster at the lambda of the
\* split.
CondenseFrom(queue, next_label, rows, mcs) ==
    IF queue = <<>> THEN rows
    ELSE
      LET node == queue[1].node
          c == queue[1].label
          rest == Tail(queue)
      IN  IF node.kids = <<>> THEN CondenseFrom(rest, next_label, rows, mcs)
          ELSE
            LET left == node.kids[1]
                right == node.kids[2]
                lambda_value == Lambda(node.dist)
                left_count == Cardinality(left.pts)
                right_count == Cardinality(right.pts)
                Fall(t) == {[parent |-> c, child |-> p,
                             lambda_val |-> lambda_value, child_size |-> 1] :
                                p \in t.pts}
                Born(t, id) == [parent |-> c, child |-> id,
                                lambda_val |-> lambda_value,
                                child_size |-> Cardinality(t.pts)]
            IN  IF left_count >= mcs /\ right_count >= mcs
                THEN CondenseFrom(
                        rest \o <<[node |-> left, label |-> next_label],
                                  [node |-> right, label |-> next_label + 1]>>,
                        next_label + 2,
                        rows \cup {Born(left, next_label),
                                   Born(right, next_label + 1)},
                        mcs)
                ELSE IF left_count < mcs /\ right_count < mcs
                THEN CondenseFrom(rest, next_label,
                                  rows \cup Fall(left) \cup Fall(right), mcs)
                ELSE IF left_count < mcs
                THEN CondenseFrom(rest \o <<[node |-> right, label |-> c]>>,
                                  next_label, rows \cup Fall(left), mcs)
                ELSE CondenseFrom(rest \o <<[node |-> left, label |-> c]>>,
                                  next_label, rows \cup Fall(right), mcs)

\* the condensed tree of X; the root cluster is Len(X) + 1, the points are
\* 1..Len(X)
condense_tree(X, tree, mcs) ==
    CondenseFrom(<<[node |-> tree, label |-> Len(X) + 1]>>, Len(X) + 2, {},
                 mcs)

RECURSIVE SumOf(_, _)
\* the sum of f(x) over the x of S, np.inf absorbing
SumOf(f(_), S) ==
    IF S = {} THEN 0
    ELSE LET x == CHOOSE y \in S : TRUE
         IN  Min({Infinity, f(x) + SumOf(f, S \ {x})})

\* the clusters of a condensed tree
ClustersOf(X, rows) ==
    {Len(X) + 1} \cup {r.child : r \in {q \in rows : q.child > Len(X)}}

ParentOf(rows, c) == (CHOOSE r \in rows : r.child = c).parent

\* births: the lambda at which cluster c appears
Birth(X, rows, c) ==
    IF c = Len(X) + 1 THEN 0 ELSE (CHOOSE r \in rows : r.child = c).lambda_val

\* compute_stability: sum of (lambda - birth) * child_size over the rows of
\* the cluster
Stability(X, rows, c) ==
    LET term(r) == IF r.lambda_val = Infinity THEN Infinity
                   ELSE (r.lambda_val - Birth(X, rows, c)) * r.child_size
    IN  SumOf(term, {r \in rows : r.parent = c})

ChildClusters(X, rows, c) ==
    {r.child : r \in {q \in rows : q.parent = c /\ q.child > Len(X)}}

RECURSIVE PropagatedStability(_, _, _)
\* get_clusters: the stability of c after the bottom-up pass, the larger of
\* its own and its children's
PropagatedStability(X, rows, c) ==
    LET child(k) == PropagatedStability(X, rows, k)
        subtree_stability == SumOf(child, ChildClusters(X, rows, c))
    IN  IF subtree_stability > Stability(X, rows, c)
        THEN subtree_stability ELSE Stability(X, rows, c)

\* get_clusters: c is kept when its children together are not more stable
IsKept(X, rows, c) ==
    LET child(k) == PropagatedStability(X, rows, k)
    IN  ~(SumOf(child, ChildClusters(X, rows, c)) > Stability(X, rows, c))

RECURSIVE AncestorsOf(_, _, _)
\* the clusters above c, the root not among them
AncestorsOf(X, rows, c) ==
    IF c = Len(X) + 1 \/ ParentOf(rows, c) = Len(X) + 1 THEN {}
    ELSE {ParentOf(rows, c)} \cup AncestorsOf(X, rows, ParentOf(rows, c))

\* get_clusters with allow_single_cluster=False: the root is never
\* selected; a kept cluster unselects every cluster below it
SelectedClusters(X, rows) ==
    {c \in ClustersOf(X, rows) \ {Len(X) + 1} :
        /\ IsKept(X, rows, c)
        /\ \A a \in AncestorsOf(X, rows, c) : ~IsKept(X, rows, a)}

RECURSIVE OwnerOf(_, _, _, _)
\* do_labelling: the selected cluster c is in or below, else the root
OwnerOf(X, rows, selected, c) ==
    IF c \in selected \/ c = Len(X) + 1 THEN c
    ELSE OwnerOf(X, rows, selected, ParentOf(rows, c))

\* do_labelling: the selected clusters are numbered in ascending order,
\* the points of no selected cluster are -1
do_labelling(X, rows) ==
    LET selected == SelectedClusters(X, rows)
        numbering == SortedSeq(selected)
    IN  [p \in 1..Len(X) |->
            LET owner == OwnerOf(X, rows, selected, ParentOf(rows, p))
            IN  IF owner \in selected THEN IndexOf(numbering, owner) - 1
                ELSE -1]

\* hdbscan.HDBSCAN(min_cluster_size, min_samples, metric='euclidean')
\*     .fit_predict(X), for two points or more
hdbscan(X, mcs, m, ties) ==
    LET tree == SingleLinkageTree(X, ClampedMinSamples(X, m), ties)
    IN  do_labelling(X, condense_tree(X, tree, mcs))

InitCluster ==
    /\ variant \in Variants
    /\ pc = "cluster_in"
    /\ variant = "A" =>
          /\ embeddings \in PointSeqsHdbscan
          /\ min_samples \in MinSamplesA
          /\ min_cluster_size \in MinClusterSizes
          /\ argsort_ties \in ArgsortTies
    /\ variant = "B" =>
          /\ embeddings \in PointSeqsDbscan
          /\ min_samples \in MinSamplesB
          /\ min_cluster_size = 0
          /\ argsort_ties = "stable"
    /\ cluster_labels = <<>>
    /\ IdleColors /\ IdleNorm /\ IdleTfidf /\ IdleLabel
    /\ IdleMap /\ IdleRun /\ IdleReport

\* clusterer.fit_predict(embeddings) of clustering-test-2.py
FitPredictHdbscan ==
    /\ pc = "cluster_in"
    /\ variant = "A"
    /\ cluster_labels' = hdbscan(embeddings, min_cluster_size, min_samples,
                                 argsort_ties)
    /\ pc' = "clustered"
    /\ UNCHANGED <<variant, reportVars, embeddings, min_samples, min_cluster_size,
                   colorVars, normVars, tfidfVars, labelVars, mapVars, runVars>>

\* clustering.fit_predict(reduced_embeddings) of clustering-test.py
FitPredictDbscan ==
    /\ pc = "cluster_in"
    /\ variant = "B"
    /\ cluster_labels' = dbscan(embeddings, min_samples)
    /\ pc' = "clustered"
    /\ UNCHANGED <<variant, reportVars, embeddings, min_samples, min_cluster_size,
                   colorVars, normVars, tfidfVars, labelVars, mapVars, runVars>>

NextCluster == FitPredictHdbscan \/ FitPredictDbscan

SpecCluster == InitCluster /\ [][NextCluster]_vars

\* points i and j lie within eps of each other
WithinEps(X, i, j) == Dist(X, i, j) <= eps

\* point i has min_samples points, itself included, within eps
CorePoint(X, m, i) ==
    Cardinality({j \in 1..Len(X) : WithinEps(X, i, j)}) >= m

\* the core points within eps of point i
CoresNear(X, m, i) ==
    {c \in 1..Len(X) : CorePoint(X, m, c) /\ WithinEps(X, i, c)}

\* C12: in variant B two core points within eps of each other, and so all
\* core points joined by a chain of such steps, share one cluster id; every
\* non-core point within eps of a core point has the cluster id of one such
\* core point; a point is labelled -1 exactly when it is no core point and
\* no core point lies within eps of it.
C12_DensityClusters ==
    (pc = "clustered" /\ variant = "B") =>
        LET X == embeddings
            m == min_samples
            L == cluster_labels
        IN  /\ \A i, j \in 1..Len(X) :
                  (CorePoint(X, m, i) /\ CorePoint(X, m, j) /\ WithinEps(X, i, j))
                      => L[i] = L[j]
            /\ \A i \in 1..Len(X) :
                  (~CorePoint(X, m, i) /\ CoresNear(X, m, i) # {})
                      => \E c \in CoresNear(X, m, i) : L[i] = L[c]
            /\ \A i \in 1..Len(X) :
                  L[i] = -1 <=> (~CorePoint(X, m, i) /\ CoresNear(X, m, i) = {})

\* a cluster of core points at two places with a border point that is no
\* core point, and a noise point
C12_Witness ==
    /\ pc = "clustered" /\ variant = "B"
    /\ \E z \in 1..Len(embeddings) : cluster_labels[z] = -1
    /\ \E i, j, b \in 1..Len(embeddings) :
          /\ embeddings[i] # embeddings[j]
          /\ CorePoint(embeddings, min_samples, i)
          /\ CorePoint(embeddings, min_samples, j)
          /\ ~CorePoint(embeddings, min_samples, b)
          /\ cluster_labels[i] = 0
          /\ cluster_labels[j] = 0
          /\ cluster_labels[b] = 0

\* the points labelled id
Members(L, id) == {i \in 1..Len(L) : L[i] = id}

\* the cluster ids of a labelling, -1 not among them
ClusterIds(L) == {L[i] : i \in 1..Len(L)} \ {-1}

LostBorder(X, m, L, id) ==
    \E c \in Members(L, id), b \in 1..Len(X) :
        /\ CorePoint(X, m, c) /\ WithinEps(X, c, b)
        /\ ~CorePoint(X, m, b)
        /\ L[b] \notin {id, -1}

C15_DuplicatesTogether ==
    pc = "clustered" =>
        \A i, j \in 1..Len(embeddings) :
            embeddings[i] = embeddings[j] => cluster_labels[i] = cluster_labels[j]

(***************************************************************************)
(* generate_cluster_map: the folium map and its markers.                   *)
(* Latitudes and longitudes are in hundredths of a degree.                 *)
(***************************************************************************)
MaxMarkers == 3

\* a missing number of the CSV file (NaN)
NaN == -100000

\* a missing description, as a text of the dataframe
NoDescription == <<"nan">>

\* the places of the records
Locations == {<<1000, 2000>>, <<3000, 4000>>}

\* the labellings of k records a clusterer returns: clusters numbered from
\* 0, two members or more in each (min_cluster_size=2, min_samples=2), -1
\* for the others
Labelings(k) ==
    {L \in [1..k -> -1..(k \div 2 - 1)] :
        \A c \in 0..(k \div 2 - 1) :
            LET size == Cardinality({i \in 1..k : L[i] = c})
            IN  /\ size # 1
                /\ size = 0 => \A i \in 1..k : L[i] < c}

\* the dataframes of a few records
SmallFrames ==
    UNION {{[i \in 1..k |->
                [cluster |-> L[i], description |-> d[i],
                 latitude |-> at[i][1], longitude |-> at[i][2]]] :
              L \in Labelings(k),
              d \in [1..k -> {<<"ice">>, NoDescription}],
              at \in [1..k -> Locations]} :
           k \in 1..MaxMarkers}

\* the dataframes of many clusters: two records for every id of a label set
WideFrames ==
    {LET ids == SortedSeq(S)
     IN  [i \in 1..(2 * Len(ids)) |->
            [cluster |-> ids[(i + 1) \div 2], description |-> <<"ice">>,
             latitude |-> 1000 * i, longitude |-> 2000]] :
        S \in ClusterLabelSets}

MapFrames == SmallFrames \cup WideFrames

\* the term lists of the clusters
TermLists == {<<"ice">>, <<"rock", "ice">>}

\* cluster_terms, the global the function reads: an entry for every cluster
\* id after a whole analysis loop, for fewer ids when the function is called
\* with another dataframe
TermDicts(ids) ==
    IF Cardinality(ids) <= 2 THEN UNION {[K -> TermLists] : K \in SUBSET ids}
    ELSE {[c \in ids \ drop |-> t] :
            t \in TermLists, drop \in {{}, {Max(ids)}}}

\* a slip: the middle of the least and the greatest value
MeanOfRange(column) ==
    LET values == {column[i] : i \in 1..Len(column)}
    IN  (Min(values) + Max(values)) \div 2

\* column.mean() of pandas, which skips NaN and is NaN for no number
MeanOf(column) ==
    LET numbers == SelectSeq(column, LAMBDA x : x # NaN)
    IN  IF numbers = <<>> THEN NaN
        ELSE SumTo(numbers, Len(numbers)) \div Len(numbers)

\* a slip: the popup leaves the terms out
PopupTextNoTerms(c_id, terms, description) ==
    [cluster |-> c_id, top_terms |-> <<>>, description |-> description]

\* popup_text: the three values the f-string puts after "Cluster:",
\* "Top Terms:" and "Description:"
PopupText(c_id, terms, description) ==
    [cluster |-> c_id, top_terms |-> JoinComma(terms),
     description |-> description]

\* folium.CircleMarker(...) of one row
CircleMarker(row, color_map, terms) ==
    LET c_id == row.cluster
        color == MarkerColor(color_map, c_id)
    IN  [location |-> <<row.latitude, row.longitude>>,
         radius |-> 5,
         color |-> color,
         fill |-> TRUE,
         fill_color |-> color,
         popup |-> PopupText(c_id, Get(terms, c_id, <<>>), row.description)]

\* a slip: the rows are visited from the last to the first
IterrowsReversed(frame) == Reverse(frame)

\* dataframe.iterrows(): the rows in index order
Iterrows(frame) == frame

\* generate_cluster_map(dataframe), terms being the module's cluster_terms
generate_cluster_map(v, frame, terms) ==
    LET color_map == ColorMapOf(v, ClusterSet(frame))
        rows == Iterrows(frame)
    IN  [location |-> <<MeanOf([i \in 1..Len(frame) |-> frame[i].latitude]),
                        MeanOf([i \in 1..Len(frame) |-> frame[i].longitude])>>,
         zoom_start |-> 5,
         markers |-> [i \in 1..Len(rows) |->
                        CircleMarker(rows[i], color_map, terms)]]

InitMap ==
    /\ variant \in Variants
    /\ pc = "map_in"
    /\ dataframe \in MapFrames
    /\ cluster_terms \in TermDicts(ClusterSet(dataframe))
    /\ base_map = NoMap
    /\ df = <<>> /\ todo = <<>>
    /\ IdleColors /\ IdleNorm
    /\ argsort_ties = "stable" /\ IdleTfidf
    /\ IdleCluster /\ IdleRun /\ IdleReport

\* erratics_map = generate_cluster_map(df)
GenerateClusterMap ==
    /\ pc = "map_in"
    /\ base_map' = generate_cluster_map(variant, dataframe, cluster_terms)
    /\ pc' = "map_out"
    /\ UNCHANGED <<variant, reportVars, dataframe, colorVars, normVars, tfidfVars,
                   labelVars, clusterVars, runVars>>

NextMap == GenerateClusterMap

SpecMap == InitMap /\ [][NextMap]_vars

\* C19: the map has exactly one marker per record of the dataframe, in the
\* order of the records, each at its record's latitude and longitude;
\* records at one place keep a marker each.
C19_OneMarkerPerRecord ==
    pc = "map_out" =>
        /\ Len(base_map.markers) = Len(dataframe)
        /\ \A i \in 1..Len(dataframe) :
              base_map.markers[i].location =
                  <<dataframe[i].latitude, dataframe[i].longitude>>

\* three records, two of them at one place and the third elsewhere
C19_Witness ==
    /\ pc = "map_out"
    /\ Len(dataframe) = 3
    /\ dataframe[1].latitude = dataframe[2].latitude
    /\ dataframe[1].longitude = dataframe[2].longitude
    /\ dataframe[3].latitude # dataframe[1].latitude
    /\ Len(base_map.markers) = 3
    /\ base_map.markers[1].location = base_map.markers[2].location
    /\ base_map.markers[3].location # base_map.markers[1].location

\* the colour mapping of the call: cluster_color_map of variant A, colors of
\* variant B
ColorsOfCall ==
    IF variant = "A"
    THEN AssignColors(ClusterSet(dataframe))
    ELSE colors

\* C20: every marker has colors[cluster_id] as stroke and as fill colour, or
\* the neutral colour gray when the id is no key of colors; its popup holds
\* the cluster id, the top terms of that cluster (none, and no error, when
\* the cluster has no summary) and the record's original description.
C20_MarkerContent ==
    pc = "map_out" =>
        \A i \in 1..Len(dataframe) :
            LET c_id == dataframe[i].cluster
                marker == base_map.markers[i]
                expected == IF c_id \in DOMAIN ColorsOfCall
                            THEN ColorsOfCall[c_id] ELSE "gray"
            IN  /\ marker.color = expected
                /\ marker.fill_color = expected
                /\ marker.fill
                /\ marker.popup.cluster = c_id
                /\ marker.popup.top_terms =
                      (IF c_id \in DOMAIN cluster_terms
                       THEN JoinComma(cluster_terms[c_id]) ELSE <<>>)
                /\ marker.popup.description = dataframe[i].description

\* variant B: a record of cluster 7, which is no key of colors, has a gray
\* marker; a record of cluster 0 has a blue one with two terms
C20_Witness ==
    /\ pc = "map_out" /\ variant = "B"
    /\ \E i, j \in 1..Len(dataframe) :
          /\ dataframe[i].cluster = 7
          /\ base_map.markers[i].color = "gray"
          /\ dataframe[j].cluster = 0
          /\ base_map.markers[j].color = "blue"
          /\ Len(base_map.markers[j].popup.top_terms) = 3
    /\ \E k \in 1..Len(dataframe) :
          /\ ~(dataframe[k].cluster \in DOMAIN cluster_terms)
          /\ base_map.markers[k].popup.top_terms = <<>>

(***************************************************************************)
(* The run of a script, from the loaded CSV file to the saved map.         *)
(***************************************************************************)
MaxRows == 2

\* min_cluster_size=2, min_samples=2
MinPoints == 2

\* the descriptions of the CSV file, as their tokens: lowercase lemmas that
\* are no stopword of NLTK, so that preprocess_text keeps them
RawDescriptions == {NoDescription, <<"ice">>, <<"also">>}

CsvRows ==
    [description : RawDescriptions, latitude : {1000, NaN},
     longitude : {2000, NaN}]

\* pd.read_csv(...): the records of the file
CsvFrames == UNION {[1..k -> CsvRows] : k \in 0..MaxRows}

\* preprocess_text on a description given as its tokens ("" for a value
\* that is no string)
CleanTokens(description) ==
    IF description = NoDescription THEN <<>> ELSE description

\* the outcomes of fit_predict (variant B: of fit_transform and fit_predict)
\* on k vectors.  No vector is refused by check_array; the libraries are not
\* part of the repository, and what they do with a single vector is left
\* open between an exception and the label -1.
ClustererOutcomes(k) ==
    IF k = 0 THEN {[raised |-> TRUE, labels |-> <<>>]}
    ELSE IF k < MinPoints
    THEN {[raised |-> TRUE, labels |-> <<>>],
          [raised |-> FALSE, labels |-> [i \in 1..k |-> -1]]}
    ELSE {[raised |-> FALSE, labels |-> L] : L \in Labelings(k)}

\* folium's validate_location refuses a NaN (ValueError), for the centre of
\* the map and for the location of a marker
MapRaises(frame) ==
    \/ MeanOf([i \in 1..Len(frame) |-> frame[i].latitude]) = NaN
    \/ MeanOf([i \in 1..Len(frame) |-> frame[i].longitude]) = NaN
    \/ \E i \in 1..Len(frame) :
          frame[i].latitude = NaN \/ frame[i].longitude = NaN

\* the name of the saved file
MapFile(v) ==
    IF v = "A" THEN "erratics_clusters_map_hdbscan.html"
    ELSE "erratics_clusters_map.html"

\* the places where a run ends with an exception
RaisedPcs == {"raised", "label_raised", "map_raised"}

Init ==
    /\ variant \in Variants
    /\ pc = "loaded"
    /\ argsort_ties \in ArgsortTies
    /\ df \in CsvFrames
    /\ todo = <<>>
    /\ cluster_terms = EmptyMap
    /\ encode_calls = 0
    /\ saved_files = {}
    /\ stdout = <<>>
    /\ IdleColors /\ IdleNorm /\ IdleTfidf /\ IdleCluster /\ IdleMap
    /\ IdleReport

\* df['cleaned_description'] = df['description'].apply(preprocess_text)
CleanDescriptions ==
    /\ pc = "loaded"
    /\ df' = [i \in 1..Len(df) |->
                [description |-> df[i].description,
                 latitude |-> df[i].latitude,
                 longitude |-> df[i].longitude,
                 cleaned_description |-> CleanTokens(df[i].description)]]
    /\ pc' = "cleaned"
    /\ UNCHANGED <<variant, reportVars, argsort_ties, todo, cluster_terms, colorVars,
                   normVars, texts, n, top_terms, clusterVars, mapVars,
                   runVars>>

\* embeddings = model.encode(df['cleaned_description'].tolist(), ...)
Encode ==
    /\ pc = "cleaned"
    /\ encode_calls' = encode_calls + 1
    /\ pc' = "embedded"
    /\ UNCHANGED <<variant, reportVars, argsort_ties, labelVars, colorVars, normVars,
                   texts, n, top_terms, clusterVars, mapVars, saved_files,
                   stdout>>

\* df['cluster'] = clusterer.fit_predict(embeddings), in variant B after
\* reducer.fit_transform(embeddings)
FitPredict ==
    /\ pc = "embedded"
    /\ \E outcome \in ClustererOutcomes(Len(df)) :
          IF outcome.raised
          THEN /\ pc' = "raised"
               /\ df' = df
          ELSE /\ pc' = "label_in"
               /\ df' = [i \in 1..Len(df) |->
                           [description |-> df[i].description,
                            latitude |-> df[i].latitude,
                            longitude |-> df[i].longitude,
                            cleaned_description |-> df[i].cleaned_description,
                            cluster |-> outcome.labels[i]]]
    /\ UNCHANGED <<variant, reportVars, argsort_ties, todo, cluster_terms, colorVars,
                   normVars, texts, n, top_terms, clusterVars, mapVars,
                   runVars>>

\* a slip: the map is built while the analysis loop is still running
GenerateMapDuringAnalysis ==
    /\ pc = "labelling"
    /\ dataframe' = df
    /\ base_map' = generate_cluster_map(variant, df, cluster_terms)
    /\ pc' = "mapped"
    /\ UNCHANGED <<variant, reportVars, argsort_ties, labelVars, colorVars, normVars,
                   texts, n, top_terms, clusterVars, runVars>>

\* erratics_map = generate_cluster_map(df)
GenerateMap ==
    /\ pc = "labelled"
    /\ dataframe' = df
    /\ IF MapRaises(df)
       THEN /\ pc' = "map_raised"
            /\ base_map' = base_map
       ELSE /\ pc' = "mapped"
            /\ base_map' = generate_cluster_map(variant, df, cluster_terms)
    /\ UNCHANGED <<variant, reportVars, argsort_ties, labelVars, colorVars, normVars,
                   texts, n, top_terms, clusterVars, runVars>>

\* a slip: the file is written before the clusters are analysed
SaveMapBeforeAnalysis ==
    /\ pc = "label_in"
    /\ saved_files = {}
    /\ saved_files' = {MapFile(variant)}
    /\ UNCHANGED <<variant, reportVars, pc, argsort_ties, labelVars, colorVars, normVars,
                   texts, n, top_terms, clusterVars, mapVars, encode_calls,
                   stdout>>

\* erratics_map.save(...)
SaveMap ==
    /\ pc = "mapped"
    /\ saved_files' = saved_files \cup {MapFile(variant)}
    /\ pc' = "saved"
    /\ UNCHANGED <<variant, reportVars, argsort_ties, labelVars, colorVars, normVars,
                   texts, n, top_terms, clusterVars, mapVars, encode_calls,
                   stdout>>

\* print("Clustering complete. Map saved as '...'")
PrintDone ==
    /\ pc = "saved"
    /\ stdout' = Append(stdout, [closing |-> MapFile(variant)])
    /\ pc' = "done"
    /\ UNCHANGED <<variant, reportVars, argsort_ties, labelVars, colorVars, normVars,
                   texts, n, top_terms, clusterVars, mapVars, encode_calls,
                   saved_files>>

Next ==
    \/ CleanDescriptions
    \/ Encode
    \/ FitPredict
    \/ StartAnalysis
    \/ LabelCluster
    \/ GenerateMap
    \/ SaveMap
    \/ PrintDone

Spec == Init /\ [][Next]_vars

\* the stages a run has completed, read from what they leave behind
Normalized ==
    \A i \in 1..Len(df) : "cleaned_description" \in DOMAIN df[i]

Clustered == \A i \in 1..Len(df) : "cluster" \in DOMAIN df[i]

\* C14: with fewer points than min_cluster_size / min_samples (a single
\* record in particular) the clusterer raises nothing and labels every point
\* -1, and the run raises nothing later either.
C14_DegenerateRunSucceeds ==
    Len(df) < MinPoints =>
        /\ ~(pc \in RaisedPcs)
        /\ Clustered => \A i \in 1..Len(df) : df[i].cluster = -1

\* a record's latitude or longitude is missing
BadLocation == \E i \in 1..Len(df) : df[i].latitude = NaN \/ df[i].longitude = NaN

\* C17: when a record has a missing (or non-finite) latitude or longitude,
\* the embedding provider is never invoked and no map file is written.
C17_FailFast ==
    BadLocation => encode_calls = 0 /\ saved_files = {}

\* C18: a map file exists only when normalization, embedding, clustering,
\* labelling and the construction of the markers have all completed; a run
\* that raised has written no file.
C18_AllOrNothing ==
    /\ saved_files # {} =>
          /\ pc \in {"saved", "done"}
          /\ saved_files = {MapFile(variant)}
          /\ Normalized
          /\ encode_calls = 1
          /\ Clustered
          /\ DOMAIN cluster_terms = ClusterSet(df)
          /\ dataframe = df
          /\ Len(base_map.markers) = Len(df)
    /\ pc \in RaisedPcs => saved_files = {}

\* a run of two records that wrote its file
C18_Witness ==
    /\ pc = "saved"
    /\ saved_files # {}
    /\ Len(df) = 2
    /\ Len(base_map.markers) = 2
    /\ cluster_terms # EmptyMap

(***************************************************************************)
(* The centre of the map                                                   *)
(***************************************************************************)
RECURSIVE ColumnSum(_, _, _)
\* the sum of a column of the first k records of the dataframe
ColumnSum(frame, column, k) ==
    IF k = 0 THEN 0
    ELSE (IF column = "latitude" THEN frame[k].latitude ELSE frame[k].longitude)
         + ColumnSum(frame, column, k - 1)

\* centre is the mean of the column over all records, rounded down to the
\* hundredth of a degree
IsMeanOfColumn(centre, frame, column) ==
    LET total == ColumnSum(frame, column, Len(frame))
    IN  /\ centre * Len(frame) <= total
        /\ total < (centre + 1) * Len(frame)

\* C21: the centre of the map is (mean of the latitudes of all records, mean
\* of the longitudes of all records), each mean taken on its own; records at
\* (10, 20) and (30, 40) give the centre (20, 30).
C21_MapCenter ==
    pc = "map_out" =>
        /\ IsMeanOfColumn(base_map.location[1], dataframe, "latitude")
        /\ IsMeanOfColumn(base_map.location[2], dataframe, "longitude")
        /\ (/\ Len(dataframe) = 2
            /\ {<<dataframe[i].latitude, dataframe[i].longitude>> : i \in 1..2}
                   = {<<1000, 2000>>, <<3000, 4000>>})
              => base_map.location = <<2000, 3000>>

\* the two records of the example
C21_Witness ==
    /\ pc = "map_out"
    /\ Len(dataframe) = 2
    /\ dataframe[1].latitude = 1000 /\ dataframe[1].longitude = 2000
    /\ dataframe[2].latitude = 3000 /\ dataframe[2].longitude = 4000
    /\ base_map.location = <<2000, 3000>>

(***************************************************************************)
(* The console report of the analysis loop                                 *)
(***************************************************************************)
\* the printed lines that report a cluster
ClusterLines == SelectSeq(stdout, LAMBDA line : "cluster" \in DOMAIN line)

\* one line per summarized cluster, with its id and its joined terms
OneLinePerSummary ==
    /\ Len(ClusterLines) = Cardinality(DOMAIN cluster_terms)
    /\ \A i \in 1..Len(ClusterLines) :
          /\ ClusterLines[i].cluster \in DOMAIN cluster_terms
          /\ ClusterLines[i].top_terms =
                JoinComma(cluster_terms[ClusterLines[i].cluster])

\* C22: the run prints exactly one line per summarized cluster, with the
\* cluster id and its comma-joined top terms, and the lines are in strictly
\* ascending order of the cluster id (-1 first), in both variants and for
\* every order in which the ids first occur in the data.
C22_ReportAscending ==
    /\ OneLinePerSummary
    /\ \A i, j \in 1..Len(ClusterLines) :
          i < j => ClusterLines[i].cluster < ClusterLines[j].cluster

(***************************************************************************)
(* The order of the steps of preprocess_text                               *)
(***************************************************************************)
\* the tokens of the text after lowercasing and punctuation stripping
BareTokens == Split(StripPunct(Lower(text)))

\* the tokens that are no stopword as they stand, in their order
Survivors == SelectSeq(BareTokens, LAMBDA w : ~(w \in stop_words))

\* C23: a token is dropped exactly when its form after lowercasing and
\* punctuation stripping, not yet lemmatized, is a stopword; the surviving
\* tokens are then lemmatized, and the result holds them in their original
\* relative order.
C23_StepOrder ==
    (pc \in {"norm_once", "norm_twice"} /\ text # NoneText) =>
        /\ Len(Split(cleaned)) = Len(Survivors)
        /\ \A i \in 1..Len(Survivors) :
              Split(cleaned)[i] = Lemmatize(Survivors[i])

\* a text with a stopword, which is dropped, and a token that is kept
\* although its lemma is a stopword
C23_Witness ==
    /\ pc = "norm_once"
    /\ text # NoneText
    /\ Len(BareTokens) = 2
    /\ Len(Survivors) = 1
    /\ Lemmatize(Survivors[1]) # Survivors[1]
    /\ Lemmatize(Survivors[1]) \in stop_words
    /\ cleaned = Lemmatize(Survivors[1])

(***************************************************************************)
(* The stages of a run and what they read                                  *)
(***************************************************************************)
\* the places of a run from the analysis loop on
LabelingPcs == {"label_in", "labelling", "labelled", "label_raised"}

\* the places of a run from generate_cluster_map on
RenderingPcs == {"mapped", "map_raised", "saved", "done"}

\* C24: the analysis loop and generate_cluster_map start only when every
\* record has its cluster id, and generate_cluster_map starts only when
\* cluster_terms has an entry for every cluster id; no later stage sees a
\* record without a cluster id, or a part of the summaries.
C24_StageAtomicity ==
    /\ (\/ pc \in LabelingPcs \cup RenderingPcs
        \/ todo # <<>> \/ cluster_terms # EmptyMap \/ stdout # <<>>
        \/ dataframe # <<>> \/ base_map # NoMap) => Clustered
    /\ (pc \in RenderingPcs \/ dataframe # <<>> \/ base_map # NoMap) =>
          /\ todo = <<>>
          /\ DOMAIN cluster_terms = ClusterSet(df)
          /\ dataframe = df

\* the map of two clustered and summarized records has been built
C24_Witness ==
    /\ pc = "mapped"
    /\ Len(df) = 2
    /\ Clustered
    /\ ClusterSet(df) = {0}
    /\ DOMAIN cluster_terms = {0}
    /\ Len(base_map.markers) = 2

(***************************************************************************)
(* erratics-layers-almost.py: main(), from the analysis loop to the report *)
(***************************************************************************)
MaxErratics == 3

\* the values of row[6] and row[7] of the CSV file
ErraticNames == {"Big Rock", "Wedgwood Rock"}

\* read_erratics_csv: one dict per row of the file
ErraticRows ==
    {[id |-> "1", name |-> nm, lat |-> at[1], lon |-> at[2]] :
        nm \in ErraticNames, at \in Locations}

ErraticLists == UNION {[1..k -> ErraticRows] : k \in 0..MaxErratics}

\* the dict the analysis loop appends for an erratic ("close_forest",
\* "elevation_m" and "above_threshold" are commented out)
ResultRecord(err, c_river, c_coast) ==
    [id |-> err.id, name |-> err.name, lon |-> err.lon, lat |-> err.lat,
     close_river |-> c_river, close_coast |-> c_coast]

\* the keys the f-string of the report loop subscripts r with
ReportKeys == {"id", "name", "elevation_m", "close_river", "close_coast"}

\* the line of one record
ResultLine(r) ==
    [id |-> r.id, name |-> r.name, elevation_m |-> r.elevation_m,
     close_river |-> r.close_river, close_coast |-> r.close_coast]

\* the three FeatureSets drawn on my_map
DrawnLayers(records) ==
    [all |-> records,
     close_rivers |-> SelectSeq(records, LAMBDA r : r.close_river),
     close_coast |-> SelectSeq(records, LAMBDA r : r.close_coast)]

\* main() after the CSV file was read and the feature layers were queried
\* and converted
InitReport ==
    /\ variant = "A"
    /\ pc = "analysing"
    /\ erratics \in ErraticLists
    /\ results = <<>>
    /\ report_rest = <<>>
    /\ argsort_ties = "stable"
    /\ IdleColors /\ IdleNorm /\ IdleTfidf /\ IdleLabel /\ IdleCluster
    /\ IdleMap /\ IdleRun

\* one iteration of "for err in erratics": whether the point is near a river
\* or the coast depends on the features the services returned
AnalyseErratic ==
    /\ pc = "analysing"
    /\ Len(results) < Len(erratics)
    /\ \E c_river, c_coast \in BOOLEAN :
          results' = Append(results,
              ResultRecord(erratics[Len(results) + 1], c_river, c_coast))
    /\ UNCHANGED <<variant, pc, erratics, report_rest, colorVars, normVars,
                   tfidfVars, labelVars, clusterVars, mapVars, runVars>>

\* after the loop: the count is printed, the FeatureSets are made and drawn
\* on the map, and the heading of the report is printed
DrawLayers ==
    /\ pc = "analysing"
    /\ Len(results) = Len(erratics)
    /\ base_map' = DrawnLayers(results)
    /\ stdout' = stdout \o <<[completed |-> Len(results)],
                            [heading |-> "------ RESULTS ------"]>>
    /\ report_rest' = results
    /\ pc' = "reporting"
    /\ UNCHANGED <<variant, erratics, results, colorVars, normVars, tfidfVars,
                   labelVars, clusterVars, dataframe, encode_calls,
                   saved_files>>

\* one iteration of "for r in results": a key the record lacks raises
\* KeyError and ends main()
ReportErratic ==
    /\ pc = "reporting"
    /\ report_rest # <<>>
    /\ IF ReportKeys \subseteq DOMAIN Head(report_rest)
       THEN /\ stdout' = Append(stdout, ResultLine(Head(report_rest)))
            /\ report_rest' = Tail(report_rest)
            /\ pc' = pc
       ELSE /\ pc' = "report_raised"
            /\ UNCHANGED <<stdout, report_rest>>
    /\ UNCHANGED <<variant, erratics, results, colorVars, normVars, tfidfVars,
                   labelVars, clusterVars, mapVars, encode_calls, saved_files>>

\* return my_map
ReturnMap ==
    /\ pc = "reporting"
    /\ report_rest = <<>>
    /\ pc' = "main_returned"
    /\ UNCHANGED <<variant, reportVars, colorVars, normVars, tfidfVars,
                   labelVars, clusterVars, mapVars, runVars>>

NextReport == AnalyseErratic \/ DrawLayers \/ ReportErratic \/ ReturnMap

SpecReport == InitReport /\ [][NextReport]_vars

\* the printed lines that report an erratic
ResultLines == SelectSeq(stdout, LAMBDA line : "close_river" \in DOMAIN line)

\* C25: every key the report loop reads is a key of each record the analysis
\* loop appended to results, so for a non-empty list of erratics main()
\* raises nothing in the report loop, and when it returns it has printed one
\* line per erratic.
C25_ReportKeysPresent ==
    /\ \A i \in 1..Len(results) : ReportKeys \subseteq DOMAIN results[i]
    /\ pc # "report_raised"
    /\ (pc = "main_returned" /\ erratics # <<>>) =>
          Len(ResultLines) = Len(erratics)

====
